---- MODULE Spec2Model ----
(***************************************************************************)
(* Model of the hydrogen-project pipeline of ShaoqinHou/scraping:          *)
(*   - the refinement scheduler AIProjectExtractor.run with its worker     *)
(*     pool, write_result merge and teardown (src/ai_project_extractor.py),*)
(*   - the sliding-window RateLimiter and the model router _next_model,    *)
(*   - the classic engine's run loop and _process_article_row              *)
(*     (src/classic_project_extractor.py),                                 *)
(*   - the entry points that start scheduler runs (src/app.py and main()). *)
(***************************************************************************)
EXTENDS Integers, Sequences, FiniteSets, TLC

VARIABLES
    db,             \* projects_classic: id -> row
    mainText,       \* articles.main_text is non-empty, per record's url
    pc,             \* per run: position in AIProjectExtractor.run
    running,        \* per run: extractor.running
    projects,       \* per run: the batch selected at line 552 (ids, ascending)
    snapSummary,    \* per run: project_summary as read by the SELECT of line 544
    fut,            \* per run: state of the future submitted for each id
    payload,        \* per run: what each finished future returns
    yielded,        \* per run: futures already handed out by as_completed
    hit_rate_limit, \* per run: local flag of run()
    exc,            \* per run: an exception is propagating out of the dispatch loop
    models,         \* per run: extractor.models
    model_idx,      \* per run: extractor._model_idx (kept modulo len(models))
    bad_models,     \* per run: extractor._bad_models
    curModel,       \* per run: backend used by the attempt in flight, per id
    lastExit,       \* per run: how the last run() invocation ended
    started,        \* per run: ids whose process_single_project began in this run
    crashClaimed,   \* ids that were claimed when a process was last killed
    aborted,        \* per run: the loop has executed shutdown(cancel_futures=True)
    rlSeen,         \* per run: a rate-limit error has been returned by an inference call
    runCount,       \* number of run() invocations started so far
    max_projects,   \* per run: the argument max_projects of run(), after line 357
    failWrites,     \* per record, the number of failure-path writes of write_result so far
    markedBad,      \* backends a model-not-found error has marked unhealthy since the process started
    \* RateLimiter (one instance, shared by its callers)
    rl_rpm,         \* RateLimiter.rpm
    rl_times,       \* RateLimiter.times, the deque of admission timestamps
    rl_now,         \* time.time(), in seconds
    rl_pc,          \* per caller: position in wait()
    rl_wake,        \* per caller: when its time.sleep ends
    rl_recent,      \* admissions recorded less than Window seconds ago
    \* Model router (one extractor)
    rt_models,      \* extractor.models
    rt_idx,         \* extractor._model_idx (kept modulo len(models))
    rt_bad,         \* extractor._bad_models
    rt_last,        \* the last _next_model call: cursor and unhealthy set it saw, and its result
    \* Classic engine
    c_art,          \* per url: what the article's title and body contain
    c_worth,        \* articles.worth_classic
    c_score,        \* articles.classic_score
    c_table,        \* projects_classic as the classic engine writes it: a set of rows
    c_nextId,       \* next AUTOINCREMENT id of projects_classic
    c_pc,           \* position in ClassicProjectExtractor.run
    c_rows,         \* the rows selected at line 1307
    c_i,            \* index of the row the loop of line 1315 is at
    c_errors,       \* server_errors
    c_exit,         \* how the last classic run() ended
    c_runs,         \* number of classic runs started so far
    \* _compute_classic_score and the worth decision on one article
    s_text,         \* which of the scoring patterns occur in title + head
    s_threshold,    \* score_threshold of the run
    s_score,        \* the score returned
    s_flags,        \* the flags returned
    s_worth,        \* the local `worth` of line 1065
    s_again,        \* the score of a second call on the same input
    s_pc,           \* position: idle, ready, scored, decided, rescored
    \* one number-plus-unit text given to both numeric normalizers
    u_text,         \* the text: its number and its unit
    u_field,        \* the field it is a value of: capacity_mw or investment_cny
    u_merge,        \* what normalize_number returned
    u_classic,      \* what the classic cascade of the field returned
    u_done,         \* which of the two have run
    \* AIProjectExtractor.__init__ on one pair of arguments
    k_models_arg,   \* the `models` argument: None, a string or a list
    k_model_arg,    \* the `model` argument
    k_models,       \* self.models
    k_pc            \* position: idle, ready, built

schedVars == <<db, mainText, pc, running, projects, snapSummary, fut, payload,
               yielded, hit_rate_limit, exc, models, model_idx, bad_models,
               curModel, lastExit, started, crashClaimed, aborted, rlSeen,
               runCount, markedBad, failWrites, max_projects>>

rlVars == <<rl_rpm, rl_times, rl_now, rl_pc, rl_wake, rl_recent>>
routerVars == <<rt_models, rt_idx, rt_bad, rt_last>>

classicVars == <<c_art, c_worth, c_score, c_table, c_nextId, c_pc, c_rows, c_i,
                 c_errors, c_exit, c_runs>>

pureVars == <<s_text, s_threshold, s_score, s_flags, s_worth, s_again, s_pc>>

unitVars == <<u_text, u_field, u_merge, u_classic, u_done>>

ctorVars == <<k_models_arg, k_model_arg, k_models, k_pc>>

vars == <<schedVars, rlVars, routerVars, classicVars, pureVars, unitVars, ctorVars>>

----------------------------------------------------------------------------
\* Bounds of the model.
MaxRecords == 2
MaxWorkers == 2
\* Runs of the scheduler in a process that stays up.
MaxRuns == 1
\* Runs of the scheduler across kills and restarts of the process.
MaxRestartRuns == 2

\* Values.
NULL == "NULL"
ABSENT == "ABSENT"
Ids == 1..MaxRecords
Runs == {"web", "cli"}

PENDING == 0
DONE == 1
CLAIMED == 9

\* Run positions (AIProjectExtractor.run).
\*   idle     : no run() executing
\*   reset    : line 342..538 done, about to execute the UPDATE of line 539
\*   select   : about to execute the SELECT of line 542
\*   claim    : about to execute the UPDATE of line 556 and submit the futures
\*   loop     : inside the as_completed loop of line 572
\*   drain    : left the loop, ThreadPoolExecutor.__exit__ waits for the workers
\*   teardown : about to execute the finally block of line 604
PcValues == {"idle", "reset", "select", "claim", "loop", "drain", "teardown"}

----------------------------------------------------------------------------
\* Values of fields and inference responses.

NoNote == [kind |-> "none", err |-> "", mdl |-> ""]
SkipNote == [kind |-> "skip", err |-> "", mdl |-> ""]      \* the no-body skip marker of line 271
FailNote == [kind |-> "fail", err |-> "", mdl |-> ""]      \* the bare failure marker of lines 313, 512
ErrNote(err, mdl) == [kind |-> "err", err |-> err, mdl |-> mdl] \* failure marker with error and model, line 296
TextNote(t) == [kind |-> "text", err |-> t, mdl |-> ""]    \* ordinary progress text

\* Raw numeric text as the backend returns it: absent key, empty string, or
\* digits followed by a unit.
\* A number-plus-unit text is its number and the characters of the unit after
\* it; the Chinese characters are written wan, qian, wa, yi, yuan.
NumAbsent == [kind |-> "absent", num |-> 0, unit |-> <<>>]
NumBlank == [kind |-> "blank", num |-> 0, unit |-> <<>>]
RawGW == [kind |-> "text", num |-> 5, unit |-> <<"G", "W">>]

\* A stored numeric value: NULL, or the rational n/d.
NullNum == [null |-> TRUE, n |-> 0, d |-> 1]
Num(n, d) == [null |-> FALSE, n |-> n, d |-> d]

\* A response dict over the modelled schema fields; ABSENT = key not present.
RSummaryOnly == [project_summary |-> "ai", capacity_mw |-> NumAbsent, project_progress |-> ABSENT]
RCapOnly == [project_summary |-> "", capacity_mw |-> RawGW, project_progress |-> "ai"]
RBlank == [project_summary |-> "", capacity_mw |-> NumBlank, project_progress |-> ABSENT]
REmpty == [project_summary |-> ABSENT, capacity_mw |-> NumAbsent, project_progress |-> ABSENT]
Responses == {RSummaryOnly, RCapOnly, RBlank, REmpty}

TextFields == {"project_summary", "project_progress"}

\* What extract_project_info returns: a parsed dict, or an __error dict.
\* The error texts a failed call can carry, by the two substrings the worker
\* looks for (lines 285, 287): "rate" and "does not exist".  The tests are
\* independent, so a text may hold both.
ErrorTexts == {"rate", "notfound", "other"}
\* The error texts with one that holds both "rate" and "does not exist".
MixedErrorTexts == ErrorTexts \cup {"rate_notfound"}
HasRate(err) == err \in {"rate", "rate_notfound"}
HasDoesNotExist(err) == err \in {"notfound", "rate_notfound"}

Outcomes ==
    [kind : {"dict"}, res : Responses, err : {""}]
    \cup [kind : {"error"}, res : {REmpty}, err : ErrorTexts]

\* Every error a call can return, and one reply with values.
ErrorOutcomes ==
    [kind : {"error"}, res : {REmpty}, err : MixedErrorTexts]
    \cup [kind : {"dict"}, res : {RSummaryOnly}, err : {""}]

\* One outcome per way a call can leave its record: merged and done, failed
\* with an empty reply, rate limited, and backend reported missing.
CoreOutcomes ==
    {o \in Outcomes :
        \/ o.kind = "dict" /\ o.res \in {RSummaryOnly, REmpty}
        \/ o.kind = "error" /\ o.err \in {"rate", "notfound"}}

\* bool(result) for a dict: it has at least one key.
DictNonEmpty(res) ==
    \/ \E k \in TextFields : res[k] # ABSENT
    \/ res.capacity_mw.kind # "absent"
\* Python truthiness of one text value of the dict.
Truthy(v) == v # ABSENT /\ v # ""
\* any(res.values())
AnyValue(res) ==
    \/ \E k \in TextFields : Truthy(res[k])
    \/ res.capacity_mw.kind = "text"

\* `pat in s` for the unit part of a text: pat occurs as a contiguous piece.
Contains(unit, pat) ==
    \E k \in 0..(Len(unit) - Len(pat)) : SubSeq(unit, k + 1, k + Len(pat)) = pat

\* str.lower() on the Latin letters of a unit.
LowerChar(c) ==
    CASE c = "G" -> "g" [] c = "M" -> "m" [] c = "K" -> "k" [] c = "W" -> "w"
      [] OTHER -> c
Lower(unit) == [k \in 1..Len(unit) |-> LowerChar(unit[k])]

\* normalize_number (lines 363-395): None/"" -> None; otherwise the number of
\* the text times the factor of the first unit test that matches, and the
\* bare number when none does.
normalize_number(val) ==
    IF val.kind # "text" THEN NullNum
    ELSE IF Contains(val.unit, <<"yi">>) THEN Num(val.num * 100000000, 1)
    ELSE IF Contains(val.unit, <<"wan", "yuan">>) THEN Num(val.num * 10000, 1)
    ELSE IF Contains(val.unit, <<"wan", "qian", "wa">>) THEN Num(val.num * 10, 1)
    ELSE IF Contains(val.unit, <<"qian", "wa">>) THEN Num(val.num, 1000)
    ELSE IF Contains(Lower(val.unit), <<"g", "w">>) THEN Num(val.num * 1000, 1)
    ELSE Num(val.num, 1)

\* merged[k] for a text field (line 462).
MergedText(res, k) == IF Truthy(res[k]) THEN res[k] ELSE NULL

NoPayload == [status |-> "unset", note |-> NoNote, model |-> NULL, res |-> REmpty]
MkPayload(status, note, model, res) ==
    [status |-> status, note |-> note, model |-> model, res |-> res]

----------------------------------------------------------------------------
\* write_result (lines 405-536): the new table after writing payload p of id.

\* A merge that stores the number of a numeric text without applying its unit.
MergeRowRawNumber(row, p) ==
    [row EXCEPT
        !.project_summary = MergedText(p.res, "project_summary"),
        !.capacity_mw = IF p.res.capacity_mw.kind = "text"
                        THEN Num(p.res.capacity_mw.num, 1) ELSE NullNum,
        !.project_progress =
            IF Truthy(p.res.project_progress)
            THEN <<TextNote(p.res.project_progress)>> ELSE <<>>,
        !.ai_model = p.model,
        !.st = DONE]

\* The UPDATE of lines 456-503: every schema field is set from the response.
MergeRow(row, p) ==
    [row EXCEPT
        !.project_summary = MergedText(p.res, "project_summary"),
        !.capacity_mw = normalize_number(p.res.capacity_mw),
        !.project_progress =
            IF Truthy(p.res.project_progress)
            THEN <<TextNote(p.res.project_progress)>> ELSE <<>>,
        !.ai_model = p.model,
        !.st = DONE]

\* A failure path that retires a record without content instead of
\* returning it to the pending state.
FailRowTerminal(row, p, status) ==
    [row EXCEPT
        !.project_progress = Append(@, p.note),
        !.ai_model = p.model,
        !.st = IF status = "skip" THEN DONE ELSE PENDING]

\* Lines 510-532: append the note unless already contained, state back to 0.
\* A failure write that appends its note without looking for it first.
FailRowAppend(row, p, status) ==
    LET note == IF p.note = NoNote \/ status # p.status THEN FailNote ELSE p.note
    IN [row EXCEPT
        !.project_progress = Append(@, note),
        !.ai_model = p.model,
        !.st = PENDING]

FailRow(row, p, status) ==
    LET note == IF p.note = NoNote \/ status # p.status THEN FailNote ELSE p.note
        has == \E k \in 1..Len(row.project_progress) : row.project_progress[k] = note
    IN [row EXCEPT
        !.project_progress = IF has THEN @ ELSE Append(@, note),
        !.ai_model = p.model,
        !.st = PENDING]

\* A write that merges every ok payload without the emptiness test of line 429.
WriteResultMergeEmpty(d, id, p) ==
    IF p.status = "ok"
    THEN [d EXCEPT ![id] = MergeRow(d[id], p)]
    ELSE [d EXCEPT ![id] = FailRow(d[id], p, p.status)]

WriteResult(d, id, p) ==
    IF p.status = "ok" /\ AnyValue(p.res)
    THEN [d EXCEPT ![id] = MergeRow(d[id], p)]
    ELSE [d EXCEPT ![id] = FailRow(d[id], p, IF p.status = "ok" THEN "fail" ELSE p.status)]

----------------------------------------------------------------------------
\* _next_model (lines 122-134).

RECURSIVE NextModelFrom(_, _, _, _)
NextModelFrom(ms, idx, bad, attempts) ==
    IF attempts >= Len(ms)
    THEN [ok |-> FALSE, model |-> NULL, idx |-> idx]
    ELSE LET m == ms[(idx % Len(ms)) + 1]
         IN IF m \in bad
            THEN NextModelFrom(ms, (idx + 1) % Len(ms), bad, attempts + 1)
            ELSE [ok |-> TRUE, model |-> m, idx |-> (idx + 1) % Len(ms)]

\* A cursor that does not consult the unhealthy set.
NextModelAny(ms, idx, bad) == NextModelFrom(ms, idx, {}, 0)

NextModel(ms, idx, bad) == NextModelFrom(ms, idx, bad, 0)

----------------------------------------------------------------------------
\* The record store as the classic engine leaves it: every row pending.
\* Record i has an article body iff i % 3 = 1 and a project_summary unless
\* i % 3 = 2, so record 2 (no content at all) exercises the skip of line 271
\* and record 3 (summary only) the fallback of line 268.
InitRow(i) ==
    [st |-> PENDING,
     project_summary |-> IF i % 3 = 2 THEN NULL ELSE "classic",
     capacity_mw |-> Num(200, 1),
     project_progress |-> <<TextNote("classic")>>,
     ai_model |-> NULL]

InitMainText(i) == i % 3 = 1

\* extractor.models after the allow-list filter of lines 74-88.  Both entry
\* points pass one model string (app.py line 1014, main() line 635), so the
\* list of a run always holds exactly one backend.
ModelConfigs == {<<"A">>}

IdleFut == [i \in Ids |-> "none"]
IdlePayload == [i \in Ids |-> NoPayload]
IdleCur == [i \in Ids |-> NULL]
IdleSummary == [i \in Ids |-> NULL]

SchedInit ==
    /\ db = [i \in Ids |-> InitRow(i)]
    /\ mainText = [i \in Ids |-> InitMainText(i)]
    /\ pc = [r \in Runs |-> "idle"]
    /\ running = [r \in Runs |-> FALSE]
    /\ projects = [r \in Runs |-> {}]
    /\ snapSummary = [r \in Runs |-> IdleSummary]
    /\ fut = [r \in Runs |-> IdleFut]
    /\ payload = [r \in Runs |-> IdlePayload]
    /\ yielded = [r \in Runs |-> {}]
    /\ hit_rate_limit = [r \in Runs |-> FALSE]
    /\ exc = [r \in Runs |-> FALSE]
    /\ models = [r \in Runs |-> <<"A">>]
    /\ model_idx = [r \in Runs |-> 0]
    /\ bad_models = [r \in Runs |-> {}]
    /\ curModel = [r \in Runs |-> IdleCur]
    /\ lastExit = [r \in Runs |-> "none"]
    /\ started = [r \in Runs |-> {}]
    /\ crashClaimed = {}
    /\ aborted = [r \in Runs |-> FALSE]
    /\ rlSeen = [r \in Runs |-> FALSE]
    /\ runCount = 0
    /\ markedBad = {}
    /\ failWrites = [i \in Ids |-> 0]
    /\ max_projects = [r \in Runs |-> 0]

----------------------------------------------------------------------------
\* Entry: run_ai_extractor's task (app.py) or main() constructs an extractor
\* (lines 88-91) and calls run(), which sets running and its locals
\* (lines 342-361).
StartRun(r, limit) ==
    /\ pc[r] = "idle"
    /\ runCount < limit
    /\ runCount' = runCount + 1
    /\ \E ms \in ModelConfigs : models' = [models EXCEPT ![r] = ms]
    /\ \E n \in 0..MaxRecords : max_projects' = [max_projects EXCEPT ![r] = n]
    /\ model_idx' = [model_idx EXCEPT ![r] = 0]
    /\ bad_models' = [bad_models EXCEPT ![r] = {}]
    /\ running' = [running EXCEPT ![r] = TRUE]
    /\ hit_rate_limit' = [hit_rate_limit EXCEPT ![r] = FALSE]
    /\ exc' = [exc EXCEPT ![r] = FALSE]
    /\ projects' = [projects EXCEPT ![r] = {}]
    /\ snapSummary' = [snapSummary EXCEPT ![r] = IdleSummary]
    /\ fut' = [fut EXCEPT ![r] = IdleFut]
    /\ payload' = [payload EXCEPT ![r] = IdlePayload]
    /\ yielded' = [yielded EXCEPT ![r] = {}]
    /\ curModel' = [curModel EXCEPT ![r] = IdleCur]
    /\ started' = [started EXCEPT ![r] = {}]
    /\ aborted' = [aborted EXCEPT ![r] = FALSE]
    /\ rlSeen' = [rlSeen EXCEPT ![r] = FALSE]
    /\ lastExit' = [lastExit EXCEPT ![r] = "running"]
    /\ pc' = [pc EXCEPT ![r] = "reset"]
    /\ crashClaimed' = IF lastExit[r] = "killed" THEN crashClaimed ELSE {}
    /\ UNCHANGED <<db, mainText, markedBad, failWrites>>

\* UPDATE ... SET is_ai_improved = 0 WHERE is_ai_improved = 9 (lines 539, 607).
ResetClaimed(d) ==
    [i \in DOMAIN d |-> IF d[i].st = CLAIMED THEN [d[i] EXCEPT !.st = PENDING] ELSE d[i]]

\* A run that starts without the reset of line 539.
NoStartupReset(d) == d

\* The UPDATE of line 539.
StartupResetDb(d) == ResetClaimed(d)

\* Lines 539-540: the startup reset.
StartupReset(r) ==
    /\ pc[r] = "reset"
    /\ db' = StartupResetDb(db)
    /\ pc' = [pc EXCEPT ![r] = "select"]
    /\ UNCHANGED <<mainText, running, projects, snapSummary, fut, payload, yielded,
                   hit_rate_limit, exc, models, model_idx, bad_models, curModel,
                   lastExit, started, crashClaimed, aborted, rlSeen, runCount, markedBad, failWrites, max_projects>>

\* A SELECT without the WHERE clause.
SelectAnyState(d, n) == {i \in DOMAIN d : i <= n}

\* A SELECT that orders by id descending.
SelectPendingDesc(d, n) ==
    LET pend == {i \in DOMAIN d : d[i].st = PENDING}
    IN {i \in pend : Cardinality({j \in pend : j > i}) < n}

\* SELECT ... WHERE is_ai_improved = 0 ORDER BY id ASC LIMIT n (lines 542-552).
SelectPending(d, n) ==
    LET pend == {i \in DOMAIN d : d[i].st = PENDING}
    IN {i \in pend : Cardinality({j \in pend : j < i}) < n}

\* Lines 542-567: select the batch; an empty batch returns through finally.
SelectBatch(r) ==
    /\ pc[r] = "select"
    /\ LET batch == SelectPending(db, max_projects[r])
       IN /\ projects' = [projects EXCEPT ![r] = batch]
          /\ snapSummary' = [snapSummary EXCEPT ![r] =
                  [i \in Ids |-> IF i \in batch THEN db[i].project_summary ELSE NULL]]
          /\ pc' = [pc EXCEPT ![r] = IF batch = {} THEN "teardown" ELSE "claim"]
    /\ UNCHANGED <<db, mainText, running, fut, payload, yielded, hit_rate_limit, exc,
                   models, model_idx, bad_models, curModel, lastExit, started,
                   crashClaimed, aborted, rlSeen, runCount, markedBad, failWrites, max_projects>>

\* UPDATE ... SET is_ai_improved = 9 WHERE id IN (ids) (lines 556-558).
MarkClaimed(d, ids) ==
    [i \in DOMAIN d |-> IF i \in ids THEN [d[i] EXCEPT !.st = CLAIMED] ELSE d[i]]

\* Lines 554-570: claim the batch and submit one future per record.
ClaimBatch(r) ==
    /\ pc[r] = "claim"
    /\ db' = MarkClaimed(db, projects[r])
    /\ fut' = [fut EXCEPT ![r] = [i \in Ids |-> IF i \in projects[r] THEN "queued" ELSE "none"]]
    /\ pc' = [pc EXCEPT ![r] = "loop"]
    /\ UNCHANGED <<mainText, running, projects, snapSummary, payload, yielded,
                   hit_rate_limit, exc, models, model_idx, bad_models, curModel,
                   lastExit, started, crashClaimed, aborted, rlSeen, runCount, markedBad, failWrites, max_projects>>

----------------------------------------------------------------------------
\* Worker side: process_single_project (lines 331-339) and
\* process_single_project_once (lines 258-329).

InFlight(r) == {i \in Ids : fut[r][i] \in {"att1", "att2"}}

\* A content test that lets every record through.
HasContentAlways(r, i) == TRUE

\* Lines 266-268: article body, else the project_summary read at claim time.
HasContent(r, i) == mainText[i] \/ snapSummary[r][i] # NULL

\* A worker that does not poll the running flag.
WorkerNeverSeesStop(r) == FALSE

\* Lines 259 and 334: the worker polls the running flag before each attempt.
WorkerSeesStop(r) == ~running[r]

\* The start of one attempt, up to the inference call (lines 334, 259-277):
\*   running cleared        -> the worker returns None
\*   no content             -> the skip payload of line 271
\*   _next_model raises     -> the except block of line 318 reads the unbound
\*                             model_name, so the future ends with an exception
\*   otherwise              -> the call is in flight on the selected backend
BeginAttemptWith(r, i, att, bad) ==
    LET nm == NextModel(models[r], model_idx[r], bad)
    IN IF WorkerSeesStop(r)
       THEN [fut |-> "done", payload |-> MkPayload("none", NoNote, NULL, REmpty),
             idx |-> model_idx[r], cur |-> NULL]
       ELSE IF ~HasContent(r, i)
       THEN [fut |-> "done", payload |-> MkPayload("skip", SkipNote, NULL, REmpty),
             idx |-> model_idx[r], cur |-> NULL]
       ELSE IF ~nm.ok
       THEN [fut |-> "done", payload |-> MkPayload("exc", NoNote, NULL, REmpty),
             idx |-> nm.idx, cur |-> NULL]
       ELSE [fut |-> att, payload |-> NoPayload, idx |-> nm.idx, cur |-> nm.model]

BeginAttempt(r, i, att) == BeginAttemptWith(r, i, att, bad_models[r])

\* Lines 279-317: the payload built from what extract_project_info returned.
Classify(out, m) ==
    IF out.kind = "error"
    THEN MkPayload(IF HasRate(out.err) THEN "rate_limit" ELSE "fail",
                   ErrNote(out.err, m), m, REmpty)
    ELSE IF DictNonEmpty(out.res)
    THEN MkPayload("ok", NoNote, m, out.res)
    ELSE MkPayload("fail", FailNote, m, REmpty)

\* Line 337: the statuses that end process_single_project after one attempt.
IsFinal(status) == status \in {"ok", "skip", "fail"}

\* The loop variable of line 333 after the attempt `att`; the loop body never
\* runs a third time.
NextAttempt(att) == IF att = "att1" THEN "att2" ELSE "att3"

\* A loop that tries again after every outcome that is not final.
RetryUnbounded(att, status) == ~IsFinal(status)

\* The loop `for _ in (1, 2)` of line 333: only the first attempt is followed
\* by another one, and only when its status is not final.
RetryAllowed(att, status) == att = "att1" /\ ~IsFinal(status)

\* A pool thread takes the oldest queued future (submission order, line 570).
StartTask(r, i) ==
    /\ pc[r] \in {"loop", "drain"}
    /\ fut[r][i] = "queued"
    /\ \A j \in Ids : j < i => fut[r][j] # "queued"
    /\ Cardinality(InFlight(r)) < MaxWorkers
    /\ LET b == BeginAttempt(r, i, "att1")
       IN /\ fut' = [fut EXCEPT ![r][i] = b.fut]
          /\ payload' = [payload EXCEPT ![r][i] = b.payload]
          /\ model_idx' = [model_idx EXCEPT ![r] = b.idx]
          /\ curModel' = [curModel EXCEPT ![r][i] = b.cur]
    /\ started' = [started EXCEPT ![r] = @ \cup {i}]
    /\ UNCHANGED <<db, mainText, pc, running, projects, snapSummary, yielded,
                   hit_rate_limit, exc, models, bad_models, lastExit, crashClaimed,
                   aborted, rlSeen, runCount, markedBad, failWrites, max_projects>>

\* A worker starts on the oldest queued future and its read of the article
\* body raises sqlite3.Error (lines 263-266).  The except block of line 318
\* builds its payload from model_name, which is not bound yet, so the handler
\* itself raises and the future ends with an exception.
StartTaskDbError(r, i) ==
    /\ pc[r] \in {"loop", "drain"}
    /\ fut[r][i] = "queued"
    /\ \A j \in Ids : j < i => fut[r][j] # "queued"
    /\ Cardinality(InFlight(r)) < MaxWorkers
    /\ running[r]
    /\ fut' = [fut EXCEPT ![r][i] = "done"]
    /\ payload' = [payload EXCEPT ![r][i] = MkPayload("exc", NoNote, NULL, REmpty)]
    /\ started' = [started EXCEPT ![r] = @ \cup {i}]
    /\ UNCHANGED <<db, mainText, pc, running, projects, snapSummary, yielded,
                   hit_rate_limit, exc, models, model_idx, bad_models, curModel,
                   lastExit, crashClaimed, aborted, rlSeen, runCount, markedBad,
                   failWrites, max_projects>>

\* The inference call of an attempt returns `out` (lines 277-317, 336-339).
InferenceReturn(r, i, out) ==
    /\ pc[r] \in {"loop", "drain"}
    /\ fut[r][i] \in {"att1", "att2"}
    /\ LET m == curModel[r][i]
           p == Classify(out, m)
           \* the retry reads _bad_models after line 288 has updated it
           b == BeginAttemptWith(r, i, NextAttempt(fut[r][i]),
                    IF out.kind = "error" /\ HasDoesNotExist(out.err)
                    THEN bad_models[r] \cup {m} ELSE bad_models[r])
           retry == RetryAllowed(fut[r][i], p.status)
       IN /\ bad_models' = [bad_models EXCEPT ![r] =
                               IF out.kind = "error" /\ HasDoesNotExist(out.err)
                               THEN @ \cup {m} ELSE @]
          /\ markedBad' = IF out.kind = "error" /\ HasDoesNotExist(out.err)
                          THEN markedBad \cup {m} ELSE markedBad
          /\ rlSeen' = [rlSeen EXCEPT ![r] = @ \/ p.status = "rate_limit"]
          /\ fut' = [fut EXCEPT ![r][i] = IF retry THEN b.fut ELSE "done"]
          /\ payload' = [payload EXCEPT ![r][i] = IF retry THEN b.payload ELSE p]
          /\ model_idx' = [model_idx EXCEPT ![r] = IF retry THEN b.idx ELSE @]
          /\ curModel' = [curModel EXCEPT ![r][i] = IF retry THEN b.cur ELSE NULL]
    /\ UNCHANGED <<db, mainText, pc, running, projects, snapSummary, yielded,
                   hit_rate_limit, exc, models, lastExit, started, crashClaimed,
                   aborted, runCount, max_projects, failWrites>>

----------------------------------------------------------------------------
\* Scheduler side: the as_completed loop (lines 572-602).

Completed(r) == {i \in Ids : fut[r][i] = "done" /\ i \notin yielded[r]}

\* A shutdown without cancel_futures.
KeepQueued(f) == f

\* executor.shutdown(wait=False, cancel_futures=True): queued futures never run.
CancelQueued(f) == [i \in DOMAIN f |-> IF f[i] = "queued" THEN "cancelled" ELSE f[i]]

\* Lines 573-575: the running flag is found cleared.
LoopStopped(r, i) ==
    /\ pc[r] = "loop"
    /\ i \in Completed(r)
    /\ ~running[r]
    /\ fut' = [fut EXCEPT ![r] = CancelQueued(@)]
    /\ aborted' = [aborted EXCEPT ![r] = TRUE]
    /\ pc' = [pc EXCEPT ![r] = "drain"]
    /\ UNCHANGED <<db, mainText, running, projects, snapSummary, payload, yielded,
                   hit_rate_limit, exc, models, model_idx, bad_models, curModel,
                   lastExit, started, crashClaimed, rlSeen, runCount, markedBad, failWrites, max_projects>>

\* Lines 577-585 for a future that returned None or raised: nothing is written.
LoopNoWrite(r, i) ==
    /\ pc[r] = "loop"
    /\ i \in Completed(r)
    /\ running[r]
    /\ payload[r][i].status \in {"none", "exc"}
    /\ yielded' = [yielded EXCEPT ![r] = @ \cup {i}]
    /\ payload' = [payload EXCEPT ![r][i] = NoPayload]
    /\ UNCHANGED <<db, mainText, pc, running, projects, snapSummary, fut,
                   hit_rate_limit, exc, models, model_idx, bad_models, curModel,
                   lastExit, started, crashClaimed, aborted, rlSeen, runCount, markedBad, failWrites, max_projects>>

\* A loop that goes on to the next future after every payload.
LoopGoesOn(status) == FALSE

\* Lines 598-602: the loop is left after a rate_limit payload was written.
BreaksOut(status) == status = "rate_limit"

\* Lines 577-602: write_result succeeds; a rate_limit payload ends the loop.
LoopWrite(r, i) ==
    /\ pc[r] = "loop"
    /\ i \in Completed(r)
    /\ running[r]
    /\ payload[r][i].status \notin {"none", "exc"}
    /\ yielded' = [yielded EXCEPT ![r] = @ \cup {i}]
    /\ db' = WriteResult(db, i, payload[r][i])
    /\ failWrites' = [failWrites EXCEPT ![i] =
                         IF payload[r][i].status = "ok" /\ AnyValue(payload[r][i].res)
                         THEN @ ELSE @ + 1]
    /\ hit_rate_limit' = [hit_rate_limit EXCEPT ![r] =
                             @ \/ payload[r][i].status = "rate_limit"]
    /\ IF BreaksOut(payload[r][i].status)
       THEN /\ fut' = [fut EXCEPT ![r] = CancelQueued(@)]
            /\ aborted' = [aborted EXCEPT ![r] = TRUE]
            /\ pc' = [pc EXCEPT ![r] = "drain"]
       ELSE UNCHANGED <<fut, aborted, pc>>
    /\ payload' = [payload EXCEPT ![r][i] = NoPayload]
    /\ UNCHANGED <<mainText, running, projects, snapSummary, exc, models,
                   model_idx, bad_models, curModel, lastExit, started, crashClaimed,
                   rlSeen, runCount, markedBad, max_projects>>

\* Line 586 when a statement of write_result raises sqlite3.Error: nothing is
\* committed and the exception leaves the loop (no except clause in run()).
LoopWriteError(r, i) ==
    /\ pc[r] = "loop"
    /\ i \in Completed(r)
    /\ running[r]
    /\ payload[r][i].status \notin {"none", "exc"}
    /\ yielded' = [yielded EXCEPT ![r] = @ \cup {i}]
    /\ exc' = [exc EXCEPT ![r] = TRUE]
    /\ pc' = [pc EXCEPT ![r] = "drain"]
    /\ payload' = [payload EXCEPT ![r][i] = NoPayload]
    /\ UNCHANGED <<db, mainText, running, projects, snapSummary, fut,
                   hit_rate_limit, models, model_idx, bad_models, curModel,
                   lastExit, started, crashClaimed, aborted, rlSeen, runCount, markedBad, failWrites, max_projects>>

\* as_completed is exhausted: every future was handed out.
LoopEnd(r) ==
    /\ pc[r] = "loop"
    /\ projects[r] \subseteq yielded[r]
    /\ pc' = [pc EXCEPT ![r] = "teardown"]
    /\ UNCHANGED <<db, mainText, running, projects, snapSummary, fut, payload, yielded,
                   hit_rate_limit, exc, models, model_idx, bad_models, curModel,
                   lastExit, started, crashClaimed, aborted, rlSeen, runCount, markedBad, failWrites, max_projects>>

\* ThreadPoolExecutor.__exit__ (line 569): shutdown(wait=True) returns once no
\* future is queued or running.
Drain(r) ==
    /\ pc[r] = "drain"
    /\ \A i \in Ids : fut[r][i] \notin {"queued", "att1", "att2"}
    /\ pc' = [pc EXCEPT ![r] = "teardown"]
    /\ UNCHANGED <<db, mainText, running, projects, snapSummary, fut, payload, yielded,
                   hit_rate_limit, exc, models, model_idx, bad_models, curModel,
                   lastExit, started, crashClaimed, aborted, rlSeen, runCount, markedBad, failWrites, max_projects>>

\* A finally block that releases nothing.
KeepClaimed(d) == d

\* The UPDATE of the finally block (lines 606-609).
TeardownReset(d) == ResetClaimed(d)

\* Lines 604-617: release the claims, clear running, return or re-raise.
Teardown(r) ==
    /\ pc[r] = "teardown"
    /\ db' = TeardownReset(db)
    /\ running' = [running EXCEPT ![r] = FALSE]
    /\ lastExit' = [lastExit EXCEPT ![r] = IF exc[r] THEN "raised" ELSE "returned"]
    /\ pc' = [pc EXCEPT ![r] = "idle"]
    /\ fut' = [fut EXCEPT ![r] = IdleFut]
    /\ payload' = [payload EXCEPT ![r] = IdlePayload]
    /\ curModel' = [curModel EXCEPT ![r] = IdleCur]
    /\ yielded' = [yielded EXCEPT ![r] = {}]
    /\ snapSummary' = [snapSummary EXCEPT ![r] = IdleSummary]
    /\ model_idx' = [model_idx EXCEPT ![r] = 0]
    /\ max_projects' = [max_projects EXCEPT ![r] = 0]
    /\ UNCHANGED <<mainText, projects, hit_rate_limit, exc, models, bad_models,
                   started, crashClaimed, aborted, rlSeen, runCount, markedBad, failWrites>>

\* The running flag is cleared from outside the run (it is polled at lines
\* 259, 334 and 573).
Stop(r) ==
    /\ pc[r] \in {"loop", "drain"}
    /\ running[r]
    /\ running' = [running EXCEPT ![r] = FALSE]
    /\ UNCHANGED <<db, mainText, pc, projects, snapSummary, fut, payload, yielded,
                   hit_rate_limit, exc, models, model_idx, bad_models, curModel,
                   lastExit, started, crashClaimed, aborted, rlSeen, runCount, markedBad, failWrites, max_projects>>

\* The process is killed while run() executes: its memory is gone, the
\* record store keeps whatever was committed.
Crash(r) ==
    /\ pc[r] # "idle"
    /\ crashClaimed' = {i \in Ids : db[i].st = CLAIMED}
    /\ pc' = [pc EXCEPT ![r] = "idle"]
    /\ running' = [running EXCEPT ![r] = FALSE]
    /\ lastExit' = [lastExit EXCEPT ![r] = "killed"]
    /\ fut' = [fut EXCEPT ![r] = IdleFut]
    /\ payload' = [payload EXCEPT ![r] = IdlePayload]
    /\ curModel' = [curModel EXCEPT ![r] = IdleCur]
    /\ yielded' = [yielded EXCEPT ![r] = {}]
    /\ snapSummary' = [snapSummary EXCEPT ![r] = IdleSummary]
    /\ model_idx' = [model_idx EXCEPT ![r] = 0]
    /\ projects' = [projects EXCEPT ![r] = {}]
    /\ started' = [started EXCEPT ![r] = {}]
    /\ hit_rate_limit' = [hit_rate_limit EXCEPT ![r] = FALSE]
    /\ exc' = [exc EXCEPT ![r] = FALSE]
    /\ aborted' = [aborted EXCEPT ![r] = FALSE]
    /\ rlSeen' = [rlSeen EXCEPT ![r] = FALSE]
    /\ bad_models' = [bad_models EXCEPT ![r] = {}]
    /\ markedBad' = {}
    /\ max_projects' = [max_projects EXCEPT ![r] = 0]
    /\ UNCHANGED <<db, mainText, models, runCount, failWrites>>

RunStep(r, outs) ==
    \/ StartupReset(r)
    \/ SelectBatch(r)
    \/ ClaimBatch(r)
    \/ \E i \in Ids : StartTask(r, i)
    \/ \E i \in Ids : \E out \in outs : InferenceReturn(r, i, out)
    \/ \E i \in Ids : LoopNoWrite(r, i)
    \/ \E i \in Ids : LoopWrite(r, i)
    \/ LoopEnd(r)
    \/ Drain(r)
    \/ Teardown(r)

\* What can go wrong inside one process while run() executes: the running
\* flag is cleared, or a statement of write_result fails.
RunFault(r) ==
    \/ Stop(r)
    \/ \E i \in Ids : LoopStopped(r, i)
    \/ \E i \in Ids : LoopWriteError(r, i)
    \/ \E i \in Ids : StartTaskDbError(r, i)


----------------------------------------------------------------------------
\* RateLimiter (lines 27-46).

Window == 60
MaxLimit == 2
MaxTime == 130
TickStep == 10
Callers == {"c1", "c2", "c3"}

RLIdle ==
    /\ rl_rpm = 0
    /\ rl_times = <<>>
    /\ rl_now = 0
    /\ rl_pc = [c \in Callers |-> "idle"]
    /\ rl_wake = [c \in Callers |-> 0]
    /\ rl_recent = <<>>

RLInit ==
    /\ rl_rpm \in 0..MaxLimit
    /\ rl_times = <<>>
    /\ rl_now = 0
    /\ rl_pc = [c \in Callers |-> "idle"]
    /\ rl_wake = [c \in Callers |-> 0]
    /\ rl_recent = <<>>

\* A check that never drops a timestamp.
PruneNothing(times, now) == times

\* Lines 40-41: drop the timestamps older than the window from the left.
RECURSIVE Prune(_, _)
Prune(times, now) ==
    IF times # <<>> /\ now - Head(times) > Window
    THEN Prune(Tail(times), now)
    ELSE times

\* An off-by-one comparison at line 42.
AdmitAtLimit(times, rpm) == Len(times) <= rpm

\* Line 42.
CanAdmit(times, rpm) == Len(times) < rpm

\* Line 45: window - (now - times[0]) + 0.01, the 0.01 rounded up to the
\* resolution of the clock.
SleepTime(times, now) == Window - (now - Head(times)) + 1

\* A lock that a sleeping caller still holds.
HoldsLockAsleep(p) == p \in {"locked", "sleep"}

\* The positions of wait() inside the `with self.lock` block (lines 38-45);
\* time.sleep of line 46 is outside the block.
HoldsLock(p) == p = "locked"

LockFree == \A c \in Callers : ~HoldsLock(rl_pc[c])

\* A caller enters wait().
RLCall(c) ==
    /\ rl_pc[c] = "idle"
    /\ rl_pc' = [rl_pc EXCEPT ![c] = "enter"]
    /\ UNCHANGED <<rl_rpm, rl_times, rl_now, rl_wake, rl_recent>>

\* Lines 35-36: limiting disabled, wait() returns at once.
RLDisabled(c) ==
    /\ rl_pc[c] = "enter"
    /\ rl_rpm <= 0
    /\ rl_pc' = [rl_pc EXCEPT ![c] = "idle"]
    /\ UNCHANGED <<rl_rpm, rl_times, rl_now, rl_wake, rl_recent>>

\* Line 38: the caller acquires the lock.
RLAcquire(c) ==
    /\ rl_pc[c] = "enter"
    /\ rl_rpm > 0
    /\ LockFree
    /\ rl_pc' = [rl_pc EXCEPT ![c] = "locked"]
    /\ UNCHANGED <<rl_rpm, rl_times, rl_now, rl_wake, rl_recent>>

\* Lines 39-44: under the lock, prune and record the admission.
RLAdmit(c) ==
    /\ rl_pc[c] = "locked"
    /\ CanAdmit(Prune(rl_times, rl_now), rl_rpm)
    /\ rl_times' = Append(Prune(rl_times, rl_now), rl_now)
    /\ rl_recent' = Append(rl_recent, rl_now)
    /\ rl_pc' = [rl_pc EXCEPT ![c] = "idle"]
    /\ UNCHANGED <<rl_rpm, rl_now, rl_wake>>

\* Lines 39-46: under the lock, prune and find the window full; the lock is
\* released and the caller sleeps.
RLBlock(c) ==
    /\ rl_pc[c] = "locked"
    /\ ~CanAdmit(Prune(rl_times, rl_now), rl_rpm)
    /\ rl_times' = Prune(rl_times, rl_now)
    /\ rl_wake' = [rl_wake EXCEPT ![c] = rl_now + SleepTime(Prune(rl_times, rl_now), rl_now)]
    /\ rl_pc' = [rl_pc EXCEPT ![c] = "sleep"]
    /\ UNCHANGED <<rl_rpm, rl_now, rl_recent>>

\* time.sleep returns (not before the requested time) and the loop repeats.
RLWake(c) ==
    /\ rl_pc[c] = "sleep"
    /\ rl_now >= rl_wake[c]
    /\ rl_pc' = [rl_pc EXCEPT ![c] = "enter"]
    /\ rl_wake' = [rl_wake EXCEPT ![c] = 0]
    /\ UNCHANGED <<rl_rpm, rl_times, rl_now, rl_recent>>

\* Admissions that are still less than Window seconds old at time `now`.
RECURSIVE Recent(_, _)
Recent(log, now) ==
    IF log # <<>> /\ now - Head(log) >= Window THEN Recent(Tail(log), now) ELSE log

\* The clock advances, up to `horizon`.
RLTickTo(horizon) ==
    /\ rl_now < horizon
    /\ rl_now' = rl_now + TickStep
    /\ rl_recent' = Recent(rl_recent, rl_now + TickStep)
    /\ UNCHANGED <<rl_rpm, rl_times, rl_pc, rl_wake>>

RLTick == RLTickTo(MaxTime)

RLNext ==
    \/ \E c \in Callers : RLCall(c)
    \/ \E c \in Callers : RLDisabled(c)
    \/ \E c \in Callers : RLAcquire(c)
    \/ \E c \in Callers : RLAdmit(c)
    \/ \E c \in Callers : RLBlock(c)
    \/ \E c \in Callers : RLWake(c)
    \/ RLTick

\* The calls of finitely many workers: every call begins by CallDeadline, and
\* the clock runs long enough after it for three queued callers to be let in
\* one window after the other.
CallDeadline == 10
FairHorizon == 220

RLStep(c) ==
    \/ RLDisabled(c)
    \/ RLAcquire(c)
    \/ RLAdmit(c)
    \/ RLBlock(c)
    \/ RLWake(c)

\* A thread inside wait() that can take its next step: it is neither asleep
\* before its time nor waiting for a lock that is held.
Runnable(c) ==
    \/ rl_pc[c] = "locked"
    \/ rl_pc[c] = "enter" /\ (rl_rpm <= 0 \/ LockFree)
    \/ rl_pc[c] = "sleep" /\ rl_now >= rl_wake[c]

\* A runnable thread is given the processor before the clock's next tick.
RLFairTick ==
    /\ \A c \in Callers : ~Runnable(c)
    /\ RLTickTo(FairHorizon)

RLFairNext ==
    \/ \E c \in Callers : rl_now <= CallDeadline /\ RLCall(c)
    \/ \E c \in Callers : RLStep(c)
    \/ RLFairTick

----------------------------------------------------------------------------
\* Model router: _next_model (lines 122-134) and the unhealthy mark (line 288).

MaxModels == 3
ModelNames == {"A", "B", "C"}

\* extractor.models after lines 62-88: a non-empty list of allow-listed names.
ModelLists == UNION {[1..n -> ModelNames] : n \in 1..MaxModels}

NoCall == [called |-> FALSE, ok |-> FALSE, model |-> NULL, from |-> 0, bad |-> {}]

RouterIdle ==
    /\ rt_models = <<"A">>
    /\ rt_idx = 0
    /\ rt_bad = {}
    /\ rt_last = NoCall

RouterInit ==
    /\ rt_models \in ModelLists
    /\ rt_idx = 0
    /\ rt_bad = {}
    /\ rt_last = NoCall

\* A worker calls _next_model().
RouterCall ==
    /\ LET nm == NextModel(rt_models, rt_idx, rt_bad)
       IN /\ rt_idx' = nm.idx
          /\ rt_last' = [called |-> TRUE, ok |-> nm.ok, model |-> nm.model,
                         from |-> rt_idx, bad |-> rt_bad]
    /\ UNCHANGED <<rt_models, rt_bad>>

\* Line 288: a model-not-found error marks the backend that was called.
RouterMarkBad(m) ==
    /\ \E k \in 1..Len(rt_models) : rt_models[k] = m
    /\ m \notin rt_bad
    /\ rt_bad' = rt_bad \cup {m}
    /\ UNCHANGED <<rt_models, rt_idx, rt_last>>

RouterNext ==
    \/ RouterCall
    \/ \E m \in ModelNames : RouterMarkBad(m)

----------------------------------------------------------------------------
\* Classic engine: ClassicProjectExtractor.run (lines 1286-1346) and
\* _process_article_row (lines 1009-1243).

MaxArticles == 2
MaxItems == 3
MaxClassicRuns == 2
ScoreThreshold == 2
Urls == 1..MaxArticles

\* What _process_article_row derives from an article's title and body:
\*   valid     : the body passes the content gate of lines 1036-1060
\*   score     : _compute_classic_score
\*   hasName   : _extract_project_name finds a name
\*   listTitle : _determine_source_type finds an aggregator keyword in the title
\*   nItems    : number of numbered segments _extract_list_items splits off
Article(valid, score, hasName, listTitle, nItems) ==
    [valid |-> valid, score |-> score, hasName |-> hasName,
     listTitle |-> listTitle, nItems |-> nItems]
ArticleKinds ==
    {Article(FALSE, 0, FALSE, FALSE, 0),
     Article(TRUE, 1, TRUE, FALSE, 0),
     Article(TRUE, 3, FALSE, FALSE, 0),
     Article(TRUE, 3, TRUE, FALSE, 0),
     Article(TRUE, 3, TRUE, FALSE, MaxItems),
     Article(TRUE, 3, TRUE, TRUE, 0)}
    \cup {Article(TRUE, 3, TRUE, TRUE, k) : k \in 1..MaxItems}

ClassicIdle ==
    /\ c_art = [u \in Urls |-> Article(FALSE, 0, FALSE, FALSE, 0)]
    /\ c_worth = [u \in Urls |-> "NULL"]
    /\ c_score = [u \in Urls |-> 0]
    /\ c_table = {}
    /\ c_nextId = 1
    /\ c_pc = "idle"
    /\ c_rows = <<>>
    /\ c_i = 1
    /\ c_errors = 0
    /\ c_exit = "none"
    /\ c_runs = 0

\* The harvester has stored the articles; no article is classified yet.
ClassicInit ==
    /\ c_art \in [Urls -> ArticleKinds]
    /\ c_worth = [u \in Urls |-> "NULL"]
    /\ c_score = [u \in Urls |-> 0]
    /\ c_table = {}
    /\ c_nextId = 1
    /\ c_pc = "idle"
    /\ c_rows = <<>>
    /\ c_i = 1
    /\ c_errors = 0
    /\ c_exit = "none"
    /\ c_runs = 0

\* The urls of S in ascending order.
RECURSIVE SeqOf(_)
SeqOf(S) ==
    IF S = {} THEN <<>>
    ELSE LET m == CHOOSE x \in S : \A y \in S : x <= y
         IN <<m>> \o SeqOf(S \ {m})

\* Lines 1292-1308: select the articles not yet found worth.
ClassicStart ==
    /\ c_pc = "idle"
    /\ c_runs < MaxClassicRuns
    /\ c_runs' = c_runs + 1
    /\ c_rows' = SeqOf({u \in Urls : c_worth[u] \in {"NULL", "0"}})
    /\ c_i' = 1
    /\ c_errors' = 0
    /\ c_exit' = "running"
    /\ c_pc' = "loop"
    /\ UNCHANGED <<c_art, c_worth, c_score, c_table, c_nextId>>

\* Lines 1101-1191: the projects built for a worth article with a name.
\* Each is (name, source_type); a list item is named by its position.
ProjectsToInsert(art) ==
    IF art.listTitle /\ art.nItems > 0
    THEN [k \in 1..art.nItems |-> [name |-> k, source_type |-> "list_item"]]
    ELSE <<[name |-> 0, source_type |-> "single"]>>

\* INSERT OR REPLACE under the unique index ux_projects_classic_url
\* (lines 222-224, 1195-1239): a row with the same url is deleted first.  The
\* statement lists the user_note column (line 1205) and binds
\* project.user_note, which both constructors set to None (lines 1146, 1186).
InsertOrReplace(table, id, url, p) ==
    {row \in table : row.url # url}
        \cup {[id |-> id, url |-> url, name |-> p.name, source_type |-> p.source_type,
                 user_note |-> NULL]}

RECURSIVE InsertAll(_, _, _, _)
InsertAll(table, id, url, ps) ==
    IF ps = <<>> THEN table
    ELSE InsertAll(InsertOrReplace(table, id, url, Head(ps)), id + 1, url, Tail(ps))

\* Line 1324, no exception other than the content gate's ValueError
\* (caught at line 1325).
ClassicRow ==
    /\ c_pc = "loop"
    /\ c_i <= Len(c_rows)
    /\ LET u == c_rows[c_i]
           art == c_art[u]
           worth == art.score >= ScoreThreshold
           ps == ProjectsToInsert(art)
       IN IF ~art.valid
          THEN /\ c_errors' = c_errors + 1
               /\ UNCHANGED <<c_worth, c_score, c_table, c_nextId>>
          ELSE IF ~worth \/ ~art.hasName
          THEN /\ c_worth' = [c_worth EXCEPT ![u] = "0"]
               /\ c_score' = [c_score EXCEPT ![u] = art.score]
               /\ UNCHANGED <<c_errors, c_table, c_nextId>>
          ELSE /\ c_table' = InsertAll(c_table, c_nextId, u, ps)
               /\ c_nextId' = c_nextId + Len(ps)
               /\ c_worth' = [c_worth EXCEPT ![u] = "1"]
               /\ c_score' = [c_score EXCEPT ![u] = art.score]
               /\ UNCHANGED c_errors
    /\ c_i' = c_i + 1
    /\ UNCHANGED <<c_art, c_pc, c_rows, c_exit, c_runs>>

\* A connection in autocommit mode: the statements executed before the
\* failure stay.
KeepPartial(before, partial) == partial

\* `with conn:` (line 1193) left by an exception: the connection rolls back
\* every statement of the block.
RolledBack(before, partial) == before

\* Line 1324 raises sqlite3.Error in a statement of _process_article_row; for
\* a worth article with a name that is the insert after k of its projects or
\* the UPDATE of line 1240.  The transaction of line 1193 is rolled back,
\* line 1332 catches the exception and the loop goes on.
ClassicRowDbError ==
    /\ c_pc = "loop"
    /\ c_i <= Len(c_rows)
    /\ c_art[c_rows[c_i]].valid
    /\ LET u == c_rows[c_i]
           art == c_art[u]
           ps == ProjectsToInsert(art)
       IN IF art.score >= ScoreThreshold /\ art.hasName
          THEN \E k \in 0..Len(ps) :
                 /\ c_table' = RolledBack(c_table,
                                   InsertAll(c_table, c_nextId, u, SubSeq(ps, 1, k)))
                 /\ c_nextId' = IF c_table' = c_table THEN c_nextId ELSE c_nextId + k
          ELSE UNCHANGED <<c_table, c_nextId>>
    /\ c_errors' = c_errors + 1
    /\ c_i' = c_i + 1
    /\ UNCHANGED <<c_art, c_worth, c_score, c_pc, c_rows, c_exit, c_runs>>

\* Lines 1340-1346: the loop is over, run() returns.
ClassicEnd ==
    /\ c_pc = "loop"
    /\ c_i > Len(c_rows)
    /\ c_pc' = "idle"
    /\ c_exit' = "returned"
    /\ UNCHANGED <<c_art, c_worth, c_score, c_table, c_nextId, c_rows, c_i, c_errors, c_runs>>

\* The dashboard stores a note on a project (app.py lines 805-823).
UpdateNote ==
    /\ \E row \in c_table :
          /\ row.user_note = NULL
          /\ c_table' = (c_table \ {row}) \cup {[row EXCEPT !.user_note = "note"]}
    /\ UNCHANGED <<c_art, c_worth, c_score, c_nextId, c_pc, c_rows, c_i, c_errors,
                   c_exit, c_runs>>

\* The dashboard empties the articles table (app.py lines 411-423);
\* projects_classic is left as it is.  Taken between classic runs.
ResetArticles ==
    /\ c_pc = "idle"
    /\ \E u \in Urls : c_worth[u] # "GONE"
    /\ c_worth' = [u \in Urls |-> "GONE"]
    /\ c_score' = [u \in Urls |-> 0]
    /\ UNCHANGED <<c_art, c_table, c_nextId, c_pc, c_rows, c_i, c_errors, c_exit, c_runs>>

\* The monitor stores the articles it finds again (qn_hydrogen_monitor.py
\* lines 240-258, INSERT OR IGNORE): a missing article comes back undecided,
\* an article still stored is left alone.
Harvest ==
    /\ c_pc = "idle"
    /\ \E u \in Urls : c_worth[u] = "GONE"
    /\ c_worth' = [u \in Urls |-> IF c_worth[u] = "GONE" THEN "NULL" ELSE c_worth[u]]
    /\ UNCHANGED <<c_art, c_score, c_table, c_nextId, c_pc, c_rows, c_i, c_errors,
                   c_exit, c_runs>>

ClassicNext ==
    \/ ClassicStart
    \/ ClassicRow
    \/ ClassicRowDbError
    \/ ClassicEnd

----------------------------------------------------------------------------
\* ClassicProjectExtractor._compute_classic_score (lines 522-569) and the
\* worth decision of _process_article_row (lines 1062-1073).

\* The largest score_threshold tried.
MaxThreshold == 6

\* What the function looks for in combined = title + head: a word of
\* PROJECT_WORDS, a stage keyword, a number before (wan) qianwa, a number
\* before MW, a number before yi yuan, a number before wan yuan, and an
\* administrative suffix followed within 10 characters by a project noun.
Patterns == {"project_word", "stage_word", "num_qianwa", "num_MW",
             "num_yi_yuan", "num_wan_yuan", "location_project"}

\* The project nouns of the proximity pattern (line 561) are all in
\* PROJECT_WORDS (line 57): a text that matches it holds a project word.
Texts == {t \in SUBSET Patterns : "location_project" \in t => "project_word" \in t}

FlagNames == {"project_word", "stage_word", "capacity", "investment", "location_project"}

Flags(text) ==
    [k \in FlagNames |->
        CASE k = "project_word" -> "project_word" \in text
          [] k = "stage_word" -> "stage_word" \in text
          [] k = "capacity" -> "num_qianwa" \in text \/ "num_MW" \in text
          [] k = "investment" -> "num_yi_yuan" \in text \/ "num_wan_yuan" \in text
          [] k = "location_project" -> "location_project" \in text]

Inc(score, flag) == IF flag THEN score + 1 ELSE score

\* A score that counts every matching pattern instead of every signal.
ComputeScorePerPattern(text) ==
    [score |-> Cardinality(text), flags |-> Flags(text)]

\* score starts at 0 and grows by one after each signal that is true.
_compute_classic_score(text) ==
    LET f == Flags(text)
        s1 == Inc(0, f["project_word"])
        s2 == Inc(s1, f["stage_word"])
        s3 == Inc(s2, f["capacity"])
        s4 == Inc(s3, f["investment"])
        s5 == Inc(s4, f["location_project"])
    IN [score |-> s5, flags |-> f]

NoFlags == [k \in FlagNames |-> FALSE]

ScoreIdle ==
    /\ s_text = {}
    /\ s_threshold = 0
    /\ s_score = 0
    /\ s_flags = NoFlags
    /\ s_worth = FALSE
    /\ s_again = 0
    /\ s_pc = "idle"

ScoreInit ==
    /\ s_text \in Texts
    /\ s_threshold \in 0..MaxThreshold
    /\ s_score = 0
    /\ s_flags = NoFlags
    /\ s_worth = FALSE
    /\ s_again = 0
    /\ s_pc = "ready"

\* Line 1063.
ScoreArticle ==
    /\ s_pc = "ready"
    /\ s_score' = _compute_classic_score(s_text).score
    /\ s_flags' = _compute_classic_score(s_text).flags
    /\ s_pc' = "scored"
    /\ UNCHANGED <<s_text, s_threshold, s_worth, s_again>>

\* Line 1065.
DecideWorth ==
    /\ s_pc = "scored"
    /\ s_worth' = (s_score >= s_threshold)
    /\ s_pc' = "decided"
    /\ UNCHANGED <<s_text, s_threshold, s_score, s_flags, s_again>>

\* A later call with the same (title, head), as a later run makes.
ScoreAgain ==
    /\ s_pc = "decided"
    /\ s_again' = _compute_classic_score(s_text).score
    /\ s_pc' = "rescored"
    /\ UNCHANGED <<s_text, s_threshold, s_score, s_flags, s_worth>>

ScoreNext == ScoreArticle \/ DecideWorth \/ ScoreAgain

----------------------------------------------------------------------------
\* The two numeric normalizers on one number-plus-unit text:
\* normalize_number of the merge phase (ai_project_extractor.py lines 363-395)
\* and the classic cascades _extract_capacity_mw (lines 721-753) and
\* _extract_investment_cny (lines 755-774).

\* The largest number tried.
MaxNumber == 9

\* The documented units of capacity and of investment.
CapacityUnits == {<<"wan", "qian", "wa">>, <<"G", "W">>, <<"M", "W">>, <<"k", "W">>,
                  <<"qian", "wa">>, <<"W">>, <<"wa">>}
InvestmentUnits == {<<"yi", "yuan">>, <<"wan", "yuan">>, <<"yuan">>}

\* re.search of "number, optional blanks, pat" in a text that is a number
\* followed by its unit: the unit starts with pat.
StartsWith(unit, pat) ==
    Len(unit) >= Len(pat) /\ SubSeq(unit, 1, Len(pat)) = pat

\* _extract_capacity_mw: first pattern that matches wins; GW and MW are
\* matched without regard to case, kW only as kW or KW.
_extract_capacity_mw(val) ==
    IF StartsWith(val.unit, <<"wan", "qian", "wa">>) THEN Num(val.num * 10, 1)
    ELSE IF StartsWith(Lower(val.unit), <<"g", "w">>) THEN Num(val.num * 1000, 1)
    ELSE IF StartsWith(Lower(val.unit), <<"m", "w">>) THEN Num(val.num, 1)
    ELSE IF \/ StartsWith(val.unit, <<"qian", "wa">>)
            \/ StartsWith(val.unit, <<"k", "W">>)
            \/ StartsWith(val.unit, <<"K", "W">>) THEN Num(val.num, 1000)
    ELSE IF StartsWith(val.unit, <<"wa">>) THEN Num(val.num, 1000000)
    ELSE NullNum

\* _extract_investment_cny: yi (yuan optional), wan yuan, yuan.
_extract_investment_cny(val) ==
    IF StartsWith(val.unit, <<"yi">>) THEN Num(val.num * 100000000, 1)
    ELSE IF StartsWith(val.unit, <<"wan", "yuan">>) THEN Num(val.num * 10000, 1)
    ELSE IF StartsWith(val.unit, <<"yuan">>) THEN Num(val.num, 1)
    ELSE NullNum

\* Two stored values are the same number (or both NULL).
SameValue(a, b) ==
    /\ a.null = b.null
    /\ ~a.null => a.n * b.d = b.n * a.d

UnitIdle ==
    /\ u_text = NumAbsent
    /\ u_field = "none"
    /\ u_merge = NullNum
    /\ u_classic = NullNum
    /\ u_done = {}

UnitInit ==
    /\ u_field \in {"capacity_mw", "investment_cny"}
    /\ \E n \in 0..MaxNumber :
         \E unit \in (IF u_field = "capacity_mw" THEN CapacityUnits ELSE InvestmentUnits) :
            u_text = [kind |-> "text", num |-> n, unit |-> unit]
    /\ u_merge = NullNum
    /\ u_classic = NullNum
    /\ u_done = {}

\* The merge phase normalizes the text (line 459).
NormalizeMerge ==
    /\ u_field # "none"
    /\ "merge" \notin u_done
    /\ u_merge' = normalize_number(u_text)
    /\ u_done' = u_done \cup {"merge"}
    /\ UNCHANGED <<u_text, u_field, u_classic>>

\* The classic engine extracts the field from the text.
ExtractClassic ==
    /\ u_field # "none"
    /\ "classic" \notin u_done
    /\ u_classic' = IF u_field = "capacity_mw"
                    THEN _extract_capacity_mw(u_text)
                    ELSE _extract_investment_cny(u_text)
    /\ u_done' = u_done \cup {"classic"}
    /\ UNCHANGED <<u_text, u_field, u_merge>>

UnitNext == NormalizeMerge \/ ExtractClassic

----------------------------------------------------------------------------
\* AIProjectExtractor.__init__ (lines 50-102): the backend list built from the
\* arguments `models` and `model`.

\* The longest `models` argument tried, in tokens.
MaxTokens == 3

\* Tokens of an argument: two allow-listed names (D is the default backend of
\* lines 53 and 87), a name that is not on the allow list, and a blank.
AllowedNames == {"A", "D"}
Tokens == {"A", "D", "X", ""}
TokenSeqs == UNION {[1..n -> Tokens] : n \in 0..MaxTokens}

NoArg == [kind |-> "none", toks |-> <<>>]

\* The `models` argument: None, a comma/space separated string (its tokens),
\* or a list (its elements).
ModelsArgs == {NoArg} \cup [kind : {"str", "list"}, toks : TokenSeqs]

IsAllowed(m) == m \in AllowedNames
IsNonBlank(m) == m # ""

\* Lines 65-72: the candidates.  A string is given by the pieces re.split
\* cuts it into, of which the comprehension of line 68 drops the empty ones.
\* An empty string or list is falsy at line 65, and then `model` is the only
\* candidate.
Candidates(marg, model) ==
    IF marg.kind # "none" /\ marg.toks # <<>>
    THEN IF marg.kind = "str" THEN SelectSeq(marg.toks, IsNonBlank) ELSE marg.toks
    ELSE IF model # "" THEN <<model>> ELSE <<>>

\* Lines 74-88: blanks and names off the allow list are dropped, the rest is
\* appended in order; an empty result becomes the default backend.
Cleaned(cands) ==
    LET kept == SelectSeq(cands, IsAllowed)
    IN IF kept = <<>> THEN <<"D">> ELSE kept

CtorIdle ==
    /\ k_models_arg = NoArg
    /\ k_model_arg = "D"
    /\ k_models = <<>>
    /\ k_pc = "idle"

CtorInit ==
    /\ k_models_arg \in ModelsArgs
    /\ k_model_arg \in Tokens
    /\ k_models = <<>>
    /\ k_pc = "ready"

Construct ==
    /\ k_pc = "ready"
    /\ k_models' = Cleaned(Candidates(k_models_arg, k_model_arg))
    /\ k_pc' = "built"
    /\ UNCHANGED <<k_models_arg, k_model_arg>>

----------------------------------------------------------------------------
\* Specifications.

\* One scheduler process at a time: the dashboard's task, guarded by
\* ai_extractor_task.is_alive() (app.py line 995).
Init == SchedInit /\ RLIdle /\ RouterIdle /\ ClassicIdle /\ ScoreIdle /\ UnitIdle /\ CtorIdle
Next ==
    (StartRun("web", MaxRuns) \/ RunStep("web", Outcomes) \/ RunFault("web"))
        /\ UNCHANGED <<rlVars, routerVars, classicVars, pureVars, unitVars, ctorVars>>
Spec == Init /\ [][Next]_vars

\* The rate limiter alone, shared by its callers.
InitRL == SchedInit /\ RLInit /\ RouterIdle /\ ClassicIdle /\ ScoreIdle /\ UnitIdle /\ CtorIdle
NextRL == RLNext /\ UNCHANGED <<schedVars, routerVars, classicVars, pureVars, unitVars, ctorVars>>
SpecRL == InitRL /\ [][NextRL]_vars

\* The rate limiter under fair scheduling: every thread inside wait() takes
\* its next step when it can, and time advances.
NextRLFair == RLFairNext /\ UNCHANGED <<schedVars, routerVars, classicVars, pureVars, unitVars, ctorVars>>
RLFairness ==
    /\ WF_vars(RLFairTick
                  /\ UNCHANGED <<schedVars, routerVars, classicVars, pureVars, unitVars, ctorVars>>)
    /\ \A c \in Callers :
          WF_vars(RLStep(c)
                    /\ UNCHANGED <<schedVars, routerVars, classicVars, pureVars, unitVars, ctorVars>>)
SpecRLFair == InitRL /\ [][NextRLFair]_vars /\ RLFairness

\* The router alone.
InitRouter == SchedInit /\ RLIdle /\ RouterInit /\ ClassicIdle /\ ScoreIdle /\ UnitIdle /\ CtorIdle
NextRouter == RouterNext /\ UNCHANGED <<schedVars, rlVars, classicVars, pureVars, unitVars, ctorVars>>
SpecRouter == InitRouter /\ [][NextRouter]_vars

\* Runs one after another, the process possibly killed during a run and
\* started again.
NextRestart ==
    (StartRun("web", MaxRestartRuns) \/ RunStep("web", CoreOutcomes) \/ Crash("web"))
        /\ UNCHANGED <<rlVars, routerVars, classicVars, pureVars, unitVars, ctorVars>>
SpecRestart == Init /\ [][NextRestart]_vars

\* One run whose calls can return every kind of error text.
NextErrors ==
    (StartRun("web", MaxRuns) \/ RunStep("web", ErrorOutcomes))
        /\ UNCHANGED <<rlVars, routerVars, classicVars, pureVars, unitVars, ctorVars>>
SpecErrors == Init /\ [][NextErrors]_vars

\* The classic engine alone.
InitClassic == SchedInit /\ RLIdle /\ RouterIdle /\ ClassicInit /\ ScoreIdle /\ UnitIdle /\ CtorIdle
NextClassic == ClassicNext /\ UNCHANGED <<schedVars, rlVars, routerVars, pureVars, unitVars, ctorVars>>
SpecClassic == InitClassic /\ [][NextClassic]_vars

\* The classic engine with the dashboard's note editor, the article reset and
\* the monitor's harvest around it.
NextNotes ==
    (ClassicNext \/ UpdateNote \/ ResetArticles \/ Harvest)
        /\ UNCHANGED <<schedVars, rlVars, routerVars, pureVars, unitVars, ctorVars>>
SpecNotes == InitClassic /\ [][NextNotes]_vars

\* The scoring function alone, over every text and threshold.
InitScore == SchedInit /\ RLIdle /\ RouterIdle /\ ClassicIdle /\ ScoreInit /\ UnitIdle /\ CtorIdle
NextScore == ScoreNext /\ UNCHANGED <<schedVars, rlVars, routerVars, classicVars, unitVars, ctorVars>>
SpecScore == InitScore /\ [][NextScore]_vars

\* The numeric normalizers alone, over every documented unit.
InitUnits == SchedInit /\ RLIdle /\ RouterIdle /\ ClassicIdle /\ ScoreIdle /\ UnitInit /\ CtorIdle
NextUnits ==
    UnitNext /\ UNCHANGED <<schedVars, rlVars, routerVars, classicVars, pureVars, ctorVars>>
SpecUnits == InitUnits /\ [][NextUnits]_vars

\* The constructor alone, over every pair of arguments.
InitCtor ==
    SchedInit /\ RLIdle /\ RouterIdle /\ ClassicIdle /\ ScoreIdle /\ UnitIdle /\ CtorInit
NextCtor ==
    Construct
        /\ UNCHANGED <<schedVars, rlVars, routerVars, classicVars, pureVars, unitVars>>
SpecCtor == InitCtor /\ [][NextCtor]_vars

\* Two scheduler runs on the same record store: the dashboard's task and a
\* run started from the command line (main(), line 630), which the guard of
\* app.py line 995 does not see.
NextConc ==
    (\E r \in Runs : StartRun(r, MaxRestartRuns) \/ RunStep(r, CoreOutcomes))
        /\ UNCHANGED <<rlVars, routerVars, classicVars, pureVars, unitVars, ctorVars>>
SpecConc == Init /\ [][NextConc]_vars

----------------------------------------------------------------------------
\* Properties of the refinement scheduler.

HasNote(row, note) ==
    \E k \in 1..Len(row.project_progress) : row.project_progress[k] = note
Exited(r) == pc[r] = "idle" /\ lastExit[r] \in {"returned", "raised"}

C2_MergeNonDestructive ==
    [][\A r \in Runs : \A i \in Ids :
        (/\ i \in Completed(r)
         /\ payload[r][i].status = "ok" /\ AnyValue(payload[r][i].res)
         /\ db[i].st # DONE /\ db'[i].st = DONE)
        => /\ (db[i].project_summary # NULL /\ ~Truthy(payload[r][i].res.project_summary))
                => db'[i].project_summary = db[i].project_summary
           /\ (~db[i].capacity_mw.null /\ payload[r][i].res.capacity_mw.kind # "text")
                => db'[i].capacity_mw = db[i].capacity_mw
           /\ (db[i].project_progress # <<>> /\ ~Truthy(payload[r][i].res.project_progress))
                => db'[i].project_progress = db[i].project_progress
      ]_vars

\* C4: crash recovery: the run that follows a killed run resets every record
\* the killed run left claimed before it selects its batch; from then on such
\* a record is pending, done, or claimed by the new run as part of its batch,
\* and it is pending or done when that run exits.
C4_CrashRecovery ==
    \A r \in Runs : \A i \in crashClaimed :
        /\ pc[r] \in {"select", "claim"} => db[i].st = PENDING
        /\ pc[r] \in {"loop", "drain", "teardown"} =>
              \/ db[i].st \in {PENDING, DONE}
              \/ db[i].st = CLAIMED /\ i \in projects[r]
        /\ Exited(r) => db[i].st \in {PENDING, DONE}

\* C4 witness: a record claimed by the killed run has been reset at startup
\* and selected by the new run, which has not claimed its batch yet.
C4_Witness ==
    /\ pc["web"] = "claim"
    /\ \E i \in crashClaimed : i \in projects["web"] /\ db[i].st = PENDING

C8_NoDispatchAfterRateLimitError ==
    [][\A r \in Runs : \A i \in Ids :
        (rlSeen[r] /\ fut[r][i] = "queued") => fut'[r][i] \in {"queued", "cancelled", "none"}
      ]_vars

\* C8 (amended): once the completion loop has handled a payload whose final
\* status (after the one internal retry) is rate_limit, every record of the
\* batch that has not started is cancelled and never dispatched, and every
\* such record is pending, unmodified, when the run exits.
C8_AbortOnRateLimitPayload ==
    \A r \in Runs : hit_rate_limit[r] =>
        /\ pc[r] \in {"drain", "teardown"} =>
              \A i \in projects[r] \ started[r] : fut[r][i] = "cancelled"
        /\ Exited(r) =>
              \A i \in projects[r] \ started[r] : db[i].st = PENDING

\* C8 witness: a run exited after a rate-limit abort with a record that never started.
C8_Witness ==
    /\ Exited("web") /\ hit_rate_limit["web"]
    /\ \E i \in projects["web"] \ started["web"] : db[i].st = PENDING

\* C9: a datastore error while writing one record's outcome does not
\* propagate out of run().
C9_WriteErrorContained ==
    \A r \in Runs : lastExit[r] # "raised"

\* C5: with limit L > 0, at every instant at most L admissions have a
\* timestamp within the trailing 60-second window, so the (L+1)-th admission
\* is never recorded earlier than 60 seconds after the oldest of the L
\* admissions still in the window.
C5_AtMostLimitInWindow ==
    rl_rpm > 0 =>
        /\ Len(rl_recent) <= rl_rpm
        /\ \A k \in 1..Len(rl_recent) : rl_now - rl_recent[k] < Window

\* C5 witness: the limit is 2, the window is full again, and the newest
\* admission was recorded after a caller had to wait for the window to move.
C5_Witness ==
    /\ rl_rpm = 2 /\ Len(rl_recent) = 2
    /\ rl_now > Window /\ rl_recent[2] = rl_now
    /\ \E c \in Callers : rl_pc[c] = "sleep"

\* C10: _next_model never returns a backend that is unhealthy at the time of
\* the call; it returns the first healthy backend in cyclic list order from
\* the cursor and leaves the cursor just behind it; it raises exactly when
\* every backend is unhealthy.
C10_NextModelRoundRobin ==
    rt_last.called =>
        LET n == Len(rt_models)
            At(k) == rt_models[((rt_last.from + k) % n) + 1]
        IN /\ rt_last.ok => rt_last.model \notin rt_last.bad
           /\ rt_last.ok =>
                 \E k \in 0..(n - 1) :
                    /\ At(k) = rt_last.model
                    /\ \A j \in 0..(k - 1) : At(j) \in rt_last.bad
                    /\ rt_idx = (rt_last.from + k + 1) % n
           /\ ~rt_last.ok <=> \A k \in 1..n : rt_models[k] \in rt_last.bad

\* C10 witness: a call skipped an unhealthy backend and returned the next one.
C10_Witness ==
    /\ rt_last.called /\ rt_last.ok
    /\ rt_models[rt_last.from + 1] \in rt_last.bad
    /\ rt_last.model # rt_models[rt_last.from + 1]

\* C3: claiming is exclusive across concurrent runs: a record claimed by one
\* run is not dispatched to inference by another run executing at the same
\* time, so no record is in flight in two runs at once.
C3_ClaimExclusive ==
    \A i \in Ids : ~(i \in InFlight("web") /\ i \in InFlight("cli"))

\* C7: after _process_article_row commits a worth list article with k >= 1
\* detected items, exactly k project rows carry that article's url.
C7_OneRecordPerListItem ==
    \A u \in Urls :
        (c_worth[u] = "1" /\ c_art[u].listTitle /\ c_art[u].nItems >= 1)
            => Cardinality({row \in c_table : row.url = u}) = c_art[u].nItems

\* C11: a backend marked unhealthy by a model-not-found error is never
\* selected for a later inference request of the same process, later runs
\* included: every step that starts an attempt starts it on a backend that
\* has not been marked since the process started.
C11_BadMarkPermanent ==
    [][\A r \in Runs : \A i \in Ids :
        (fut'[r][i] \in {"att1", "att2"} /\ fut'[r][i] # fut[r][i])
            => curModel'[r][i] \notin markedBad'
      ]_vars

\* C12: with no concurrent run, the claim phase of run(max_projects = N)
\* moves to claimed exactly the min(N, number of pending) pending records
\* with the smallest ids and changes nothing else; when that number is 0 the
\* run goes to its exit without changing any record.
C12_ClaimSmallestPending ==
    [][\A r \in Runs :
        LET pend == {i \in Ids : db[i].st = PENDING}
            n == max_projects[r]
            k == IF n < Cardinality(pend) THEN n ELSE Cardinality(pend)
            new == {i \in Ids : db'[i].st = CLAIMED /\ db[i].st # CLAIMED}
        IN /\ (pc[r] = "claim" /\ pc'[r] = "loop") =>
                /\ Cardinality(new) = k
                /\ new \subseteq pend
                /\ \A i \in new : \A j \in pend \ new : i < j
                /\ \A i \in new : db'[i] = [db[i] EXCEPT !.st = CLAIMED]
                /\ \A i \in Ids \ new : db'[i] = db[i]
           /\ (pc[r] = "select" /\ pc'[r] = "teardown") => (k = 0 /\ db' = db)
           /\ (pc[r] = "select" /\ pc'[r] = "claim") => (k > 0 /\ db' = db)
      ]_vars

\* C12 witness: a later run with max_projects = 1 has claimed the one pending
\* record with the smallest id, skipping a record that is done and leaving
\* the other pending ones alone.
C12_Witness ==
    /\ pc["web"] = "loop" /\ max_projects["web"] = 1 /\ started["web"] = {}
    /\ \E i \in Ids :
          /\ db[i].st = CLAIMED
          /\ \A j \in Ids : j < i => db[j].st = DONE
          /\ \E j \in Ids : j < i

\* C13: when the completion loop merges an ok result with at least one
\* non-empty value, every schema field that is populated in the result is
\* stored as the normalized inference value, the record becomes done, and the
\* stored backend is the backend of the run that produced the result.
C13_MergeStoresPopulated ==
    [][\A r \in Runs : \A i \in Ids :
        LET p == payload[r][i]
        IN (/\ i \in Completed(r) /\ i \in yielded'[r] /\ ~exc'[r]
            /\ p.status = "ok" /\ AnyValue(p.res))
           => /\ Truthy(p.res.project_summary)
                    => db'[i].project_summary = p.res.project_summary
              /\ Truthy(p.res.project_progress)
                    => db'[i].project_progress = <<TextNote(p.res.project_progress)>>
              /\ p.res.capacity_mw.kind = "text"
                    => db'[i].capacity_mw = normalize_number(p.res.capacity_mw)
              /\ p.res.capacity_mw = RawGW => db'[i].capacity_mw = Num(5000, 1)
              /\ db'[i].st = DONE
              /\ db'[i].ai_model = p.model /\ p.model = "A"
      ]_vars

\* C13 witness: a record is done with the capacity of a "5 GW" reply stored
\* as 5000 MW, the reply's progress text, and the backend that answered.
C13_Witness ==
    \E i \in Ids :
        /\ db[i].st = DONE /\ db[i].capacity_mw = Num(5000, 1)
        /\ db[i].project_progress = <<TextNote("ai")>> /\ db[i].ai_model = "A"

\* The payloads of an empty inference result: an empty object (the bare
\* failure payload of lines 310-317) or an object whose values are all empty
\* (an ok payload that fails the test of line 429).
EmptyResultPayload(p) ==
    \/ p.status = "ok" /\ ~AnyValue(p.res)
    \/ p.status = "fail" /\ p.note = FailNote

\* C14: writing the payload of an empty inference result leaves the record
\* pending, not done; its business fields keep their values except that
\* project_progress holds the earlier text followed by the failure note.
C14_EmptyResultIsFailure ==
    [][\A r \in Runs : \A i \in Ids :
        (/\ i \in Completed(r) /\ i \in yielded'[r] /\ ~exc'[r]
         /\ EmptyResultPayload(payload[r][i]))
        => /\ db'[i].st = PENDING
           /\ db'[i].project_summary = db[i].project_summary
           /\ db'[i].capacity_mw = db[i].capacity_mw
           /\ db'[i].project_progress \in
                 {db[i].project_progress, Append(db[i].project_progress, FailNote)}
           /\ HasNote(db'[i], FailNote)
      ]_vars

\* C14 witness: the loop has written the payload of an empty result (the only
\* payloads that carry the bare failure note); the record is pending with the
\* note after its earlier progress text, and its other fields are as before.
C14_Witness ==
    \E i \in Ids :
        /\ i \in yielded["web"] /\ ~exc["web"] /\ pc["web"] = "loop"
        /\ db[i].st = PENDING /\ db[i].ai_model = "A"
        /\ db[i].project_progress = <<TextNote("classic"), FailNote>>
        /\ db[i].capacity_mw = InitRow(i).capacity_mw
        /\ db[i].project_summary = InitRow(i).project_summary

\* The note text a failure write uses (line 512): the payload's msg, or the
\* bare failure marker when the payload has none.
NoteOf(p) == IF p.note = NoNote \/ p.status = "ok" THEN FailNote ELSE p.note

\* How many times note n occurs in a progress text.
Occurrences(progress, n) ==
    Cardinality({k \in 1..Len(progress) : progress[k] = n})

\* C15: every failure-path write (failed, skipped or rate-limited payload, or
\* an ok payload without values) leaves project_progress holding the payload's
\* note exactly once, after all the text the field held before the write; so
\* repeating the same note over several runs never duplicates it.
C15_FailureNoteIdempotent ==
    [][\A i \in Ids :
        failWrites'[i] # failWrites[i]
        => \E r \in Runs :
             LET n == NoteOf(payload[r][i])
                 old == db[i].project_progress
                 new == db'[i].project_progress
             IN /\ i \in Completed(r)
                /\ Occurrences(new, n) = 1
                /\ Len(new) >= Len(old)
                /\ SubSeq(new, 1, Len(old)) = old
                /\ Len(new) <= Len(old) + 1
      ]_vars

\* C15 witness: a record was written on the failure path in two runs with the
\* same skip note; its progress is the classic text followed by one note.
C15_Witness ==
    \E i \in Ids :
        /\ failWrites[i] = 2
        /\ db[i].project_progress = <<TextNote("classic"), SkipNote>>
        /\ db[i].st = PENDING

\* C16: an article the classic engine has decided is not worth (worth_classic
\* written as 0 at lines 1067-1083) is never processed by a later classic run.
C16_NotWorthTerminal ==
    [][(c_pc = "loop" /\ c_i <= Len(c_rows) /\ c_i' = c_i + 1)
          => c_worth[c_rows[c_i]] # "0"
      ]_vars

\* C17: no step of the classic engine changes a user_note: a project that
\* carries a note before the step is still stored for its url with the same
\* note after it.
C17_UserNoteUntouched ==
    [][(c_pc = "loop" /\ c_i' # c_i)
          => \A row \in c_table :
                row.user_note # NULL
                    => \E row2 \in c_table' :
                          row2.url = row.url /\ row2.user_note = row.user_note
      ]_vars

C19_NormalizersAgree ==
    u_done = {"merge", "classic"} => SameValue(u_merge, u_classic)

\* C20: when the completion loop takes the future of a record whose
\* processing failed (an error payload, a failure payload, or a worker that
\* raised), the record carries a failure note in project_progress afterwards.
C20_FailureLeavesNote ==
    [][\A r \in Runs : \A i \in Ids :
        (/\ i \in Completed(r) /\ i \in yielded'[r] /\ i \notin yielded[r]
         /\ ~exc'[r]
         /\ payload[r][i].status \in {"fail", "rate_limit", "exc"})
        => \E k \in 1..Len(db'[i].project_progress) :
              db'[i].project_progress[k].kind \in {"fail", "err"}
      ]_vars

\* C21: within one run a record has at most two inference calls; the first
\* begins when its queued future is taken, the second begins only at the
\* return of the first, and nothing follows the second.
C21_AtMostTwoAttempts ==
    [][\A r \in Runs : \A i \in Ids :
        /\ fut'[r][i] \in {"none", "queued", "att1", "att2", "done", "cancelled"}
        /\ fut'[r][i] # fut[r][i]
              => /\ fut'[r][i] = "queued" => fut[r][i] = "none"
                 /\ fut'[r][i] = "att1" => fut[r][i] = "queued"
                 /\ fut'[r][i] = "att2" => fut[r][i] = "att1"
                 /\ fut[r][i] = "att2" => fut'[r][i] \in {"done", "none"}
                 /\ fut'[r][i] = "none" => pc'[r] = "idle"
      ]_vars

\* C21 witness: a record's second call has returned rate limited, which only
\* a second call can leave as the record's payload.
C21_Witness ==
    \E i \in Ids :
        /\ fut["web"][i] = "done" /\ pc["web"] = "loop"
        /\ payload["web"][i].status = "rate_limit"

\* C22: when a call returns a model-not-found error, its backend is in the
\* unhealthy set afterwards and the record's outcome is the ordinary fail
\* payload, which does not abort the batch.
C22_NotFoundIsOrdinaryFail ==
    [][\A r \in Runs : \A i \in Ids :
        LET m == curModel[r][i]
        IN (/\ fut[r][i] \in {"att1", "att2"}
            /\ m \in bad_models'[r] /\ m \notin bad_models[r])
           => /\ fut'[r][i] = "done"
              /\ payload'[r][i].status = "fail"
              /\ payload'[r][i].model = m
      ]_vars

C24_SkipTouchesNoBackend ==
    [][\A r \in Runs : \A i \in Ids :
        (/\ fut[r][i] = "queued" /\ fut'[r][i] \notin {"queued", "cancelled"}
         /\ running[r] /\ ~mainText[i] /\ snapSummary[r][i] = NULL)
        => /\ fut'[r][i] = "done"
           /\ payload'[r][i].status \in {"skip", "exc"}
           /\ payload'[r][i].model = NULL
           /\ model_idx'[r] = model_idx[r]
           /\ curModel'[r] = curModel[r]
           /\ \A j \in Ids : fut'[r][j] \in {"att1", "att2"} => fut'[r][j] = fut[r][j]
           /\ bad_models'[r] = bad_models[r]
      ]_vars

\* C24 witness: in a run in which another record has a call in flight, a
\* record without source text was written as skipped.
C24_Witness ==
    \E i, j \in Ids :
        /\ ~mainText[i] /\ InitRow(i).project_summary = NULL
        /\ i \in yielded["web"] /\ HasNote(db[i], SkipNote)
        /\ fut["web"][j] \in {"att1", "att2"}

\* C25: the backend list the constructor builds holds only allow-listed
\* names, holds no name twice, and keeps the order of the input.
C25_BackendListClean ==
    k_pc = "built"
        => /\ \A k \in 1..Len(k_models) : k_models[k] \in AllowedNames
           /\ \A k, l \in 1..Len(k_models) : k_models[k] = k_models[l] => k = l
           /\ k_models \in {<<"D">>, SelectSeq(Candidates(k_models_arg, k_model_arg), IsAllowed)}

\* C26: when the classic loop processes an article that fails the content
\* gate, no project row is stored for it, the rejection is written to the
\* article's row (some column of the row changes), and the loop goes on to
\* the next article.
C26_RejectionRecorded ==
    [][(c_pc = "loop" /\ c_i <= Len(c_rows) /\ c_i' = c_i + 1
            /\ ~c_art[c_rows[c_i]].valid)
          => LET u == c_rows[c_i]
             IN /\ c_table' = c_table
                /\ c_pc' = "loop"
                /\ <<c_worth'[u], c_score'[u]>> # <<c_worth[u], c_score[u]>>
      ]_vars

C28_DoneIsTerminal ==
    [][\A r \in Runs : \A i \in Ids :
        /\ db[i].st = DONE => db'[i] = db[i]
        /\ (pc[r] = "select" /\ pc'[r] # "select" /\ db[i].st = DONE)
              => i \notin projects'[r]
        /\ (fut'[r][i] # fut[r][i] /\ fut'[r][i] # "none")
              => IF fut'[r][i] = "queued" THEN db[i].st = PENDING ELSE db[i].st = CLAIMED
      ]_vars

\* C28 witness: the second run is in its loop with a batch, and a record the
\* first run finished is done, outside the batch and without a future.
C28_Witness ==
    /\ runCount = 2 /\ pc["web"] = "loop" /\ projects["web"] # {}
    /\ \E i \in Ids :
          /\ db[i].st = DONE /\ db[i].ai_model # NULL
          /\ i \notin projects["web"] /\ fut["web"][i] = "none"

\* C29: with a limit above zero, time advancing and fair scheduling, every
\* call of wait() returns; and whenever no caller is inside the locked block,
\* a caller at the entry of the block can take the lock, even while other
\* callers sleep.
C29_WaitReturns ==
    /\ [](\A c \in Callers :
            (rl_pc[c] = "enter" /\ rl_rpm > 0 /\ \A d \in Callers : rl_pc[d] # "locked")
                => ENABLED RLAcquire(c))
    /\ \A c \in Callers : (rl_pc[c] # "idle") ~> (rl_pc[c] = "idle")

\* C29 witness: with limit 1, one caller sleeps on the full window while
\* another, who arrived after it, holds the lock for its own check, and a
\* third has been admitted twice by then.
C29_Witness ==
    /\ rl_rpm = 1 /\ Len(rl_times) = 1 /\ rl_now > Window
    /\ \E c, d \in Callers :
          /\ rl_pc[c] = "sleep" /\ rl_wake[c] > rl_now
          /\ rl_pc[d] = "locked"

\* C30: in every state the classic engine reaches, failed inserts included,
\* each article marked worth has a project row with its url and each project
\* row has the url of a stored article; and the rows of an article change
\* only in the step that marks the article worth.
C30_InsertAndMarkAtomic ==
    [][/\ \A u \in Urls : c_worth'[u] = "1" => \E row \in c_table' : row.url = u
       /\ \A row \in c_table' : row.url \in Urls /\ c_worth'[row.url] # "GONE"
       /\ \A u \in Urls :
             {row \in c_table' : row.url = u} # {row \in c_table : row.url = u}
                 => c_worth[u] # "1" /\ c_worth'[u] = "1"
      ]_vars

\* C30 witness: a run has returned in which the processing of a list article
\* with several items failed in the database, leaving it undecided and
\* without rows, while another article is marked worth and has its row.
C30_Witness ==
    /\ c_pc = "idle" /\ c_exit = "returned" /\ c_errors >= 1
    /\ \E u, v \in Urls :
          /\ c_worth[u] = "1" /\ \E row \in c_table : row.url = u
          /\ c_art[v].valid /\ c_art[v].listTitle /\ c_art[v].nItems >= 2
          /\ c_worth[v] = "NULL" /\ \A row \in c_table : row.url # v

====
